---- MODULE Spec2Model ----
(***************************************************************************)
(* Model of cfb_redzone.py: the ESPN play-by-play fetcher                  *)
(* (ESPNFetcher.fetch_latest_play), the scoring heuristic and the          *)
(* monitoring loop of main(), with the configuration of config.py.        *)
(*                                                                         *)
(* Text is a sequence of one-character strings, so that str.lower() and    *)
(* the substring test `phrase in txt` are computed, not assumed.  JSON     *)
(* values are tagged records: [k |-> "null"], [k |-> "bool", b |-> b],     *)
(* [k |-> "int", n |-> n], [k |-> "str", s |-> text],                      *)
(* [k |-> "list", q |-> sequence], [k |-> "obj", f |-> function on keys].  *)
(***************************************************************************)
EXTENDS Integers, Sequences, FiniteSets, TLC

VARIABLES
    game_launches,            \* main: list of (g, svc, url), fixed after setup
    profiles,                 \* main: service name -> ServiceProfile.launched
    pc,                       \* position of main() in the monitoring loop
    i,                        \* index of the next entry of the for loop (line 298)
    polled,                   \* per entry of this cycle: the locals info/desc/yardline/score
    best_game,                \* main: best_game (None or the 5-tuple of line 321)
    best_metric,              \* main: best_metric
    tnow,                     \* main: tnow (line 324)
    last_switch_time,         \* main: last_switch_time
    currently_featured_game,  \* main: currently_featured_game
    success,                  \* main: success (lines 330-333)
    activations,              \* hints passed to bring_window_to_front_by_title_hint this cycle
    clock,                    \* the system clock read by time.time()
    feed,                     \* fetcher harness: the feed reference and HTTP response under test
    fetched,                  \* fetcher harness: outcome of fetch_latest_play on feed
    scored,                   \* fetcher harness: the locals of lines 305-317 for fetched
    phase                     \* fetcher harness: "idle" | "input" | "fetched" | "scored" | "crashed"

vars == <<game_launches, profiles, pc, i, polled, best_game, best_metric, tnow,
          last_switch_time, currently_featured_game, success, activations, clock,
          feed, fetched, scored, phase>>

loopVars == <<game_launches, profiles, pc, i, polled, best_game, best_metric, tnow,
              last_switch_time, currently_featured_game, success, activations, clock>>

feedVars == <<feed, fetched, scored, phase>>

(***************************************************************************)
(* config.py                                                               *)
(***************************************************************************)
POLL_INTERVAL == 12

SWITCH_GRACE_SECONDS == 10

RED_ZONE_YARDS == 20

(***************************************************************************)
(* Bounds of the model                                                     *)
(***************************************************************************)
MaxGames == 2

MaxClock == 44

MaxDelay == 1

MaxSetBack == 3

(***************************************************************************)
(* Text                                                                    *)
(***************************************************************************)
UpperToLower ==
    [A |-> "a", B |-> "b", C |-> "c", D |-> "d", E |-> "e", F |-> "f", G |-> "g",
     H |-> "h", I |-> "i", J |-> "j", K |-> "k", L |-> "l", M |-> "m", N |-> "n",
     O |-> "o", P |-> "p", Q |-> "q", R |-> "r", S |-> "s", T |-> "t", U |-> "u",
     V |-> "v", W |-> "w", X |-> "x", Y |-> "y", Z |-> "z"]

LowerChar(c) == IF c \in DOMAIN UpperToLower THEN UpperToLower[c] ELSE c

\* str.lower()
Lower(s) == [n \in 1..Len(s) |-> LowerChar(s[n])]

\* `p in s` for two strings
Contains(s, p) ==
    \E n \in 1..(Len(s) - Len(p) + 1) : SubSeq(s, n, n + Len(p) - 1) = p

Digits == [c \in {"0", "1", "2", "3", "4", "5", "6", "7", "8", "9"} |->
             CASE c = "0" -> 0 [] c = "1" -> 1 [] c = "2" -> 2 [] c = "3" -> 3
               [] c = "4" -> 4 [] c = "5" -> 5 [] c = "6" -> 6 [] c = "7" -> 7
               [] c = "8" -> 8 [] c = "9" -> 9]

RECURSIVE StripLeft(_)
StripLeft(s) == IF s # <<>> /\ Head(s) = " " THEN StripLeft(Tail(s)) ELSE s

RECURSIVE StripRight(_)
StripRight(s) ==
    IF s # <<>> /\ s[Len(s)] = " " THEN StripRight(SubSeq(s, 1, Len(s) - 1)) ELSE s

RECURSIVE DigitsValue(_, _)
DigitsValue(s, acc) ==
    IF s = <<>> THEN acc
    ELSE IF Head(s) = "_" THEN DigitsValue(Tail(s), acc)
    ELSE DigitsValue(Tail(s), 10 * acc + Digits[Head(s)])

\* the literal that int(str) accepts after the sign: digits, single
\* underscores only between digits
IsDigitLiteral(s) ==
    /\ s # <<>>
    /\ \A n \in 1..Len(s) : s[n] \in DOMAIN Digits \/ s[n] = "_"
    /\ s[1] # "_" /\ s[Len(s)] # "_"
    /\ \A n \in 1..(Len(s) - 1) : ~(s[n] = "_" /\ s[n + 1] = "_")

\* int(s) for a str s: [ok |-> FALSE] stands for ValueError
IntOfStr(s) ==
    LET t == StripRight(StripLeft(s))
        signed == t # <<>> /\ Head(t) \in {"+", "-"}
        body == IF signed THEN Tail(t) ELSE t
    IN  IF IsDigitLiteral(body)
        THEN [ok |-> TRUE,
              v |-> IF signed /\ Head(t) = "-" THEN 0 - DigitsValue(body, 0)
                    ELSE DigitsValue(body, 0)]
        ELSE [ok |-> FALSE, v |-> 0]

(***************************************************************************)
(* JSON values and the Python operations the fetcher applies to them       *)
(***************************************************************************)
JNull == [k |-> "null"]

JBool(b) == [k |-> "bool", b |-> b]

JInt(n) == [k |-> "int", n |-> n]

JStr(s) == [k |-> "str", s |-> s]

JList(q) == [k |-> "list", q |-> q]

JObj(f) == [k |-> "obj", f |-> f]

EmptyObj == JObj([key \in {} |-> JNull])

\* bool(x)
Truthy(x) ==
    CASE x.k = "null" -> FALSE
      [] x.k = "bool" -> x.b
      [] x.k = "int"  -> x.n # 0
      [] x.k = "str"  -> Len(x.s) > 0
      [] x.k = "list" -> Len(x.q) > 0
      [] x.k = "obj"  -> DOMAIN x.f # {}

\* x or y
Or(x, y) == IF Truthy(x) THEN x ELSE y

\* d.get(key, default) on a dict d
Get(d, key, default) == IF key \in DOMAIN d.f THEN d.f[key] ELSE default

RECURSIVE KeysOf(_)
KeysOf(S) == IF S = {} THEN <<>>
             ELSE LET key == CHOOSE key \in S : TRUE
                  IN  <<JStr(<<key>>)>> \o KeysOf(S \ {key})

\* `for p in x`: the elements, or not ok for TypeError (not iterable)
Iterate(x) ==
    CASE x.k = "list" -> [ok |-> TRUE, items |-> x.q]
      [] x.k = "str"  -> [ok |-> TRUE, items |-> [n \in 1..Len(x.s) |-> JStr(<<x.s[n]>>)]]
      [] x.k = "obj"  -> [ok |-> TRUE, items |-> KeysOf(DOMAIN x.f)]
      [] OTHER        -> [ok |-> FALSE, items |-> <<>>]

\* x[-1] for a truthy x: not ok for KeyError (dict) or TypeError (number)
LastOf(x) ==
    CASE x.k = "list" -> [ok |-> TRUE, item |-> x.q[Len(x.q)]]
      [] x.k = "str"  -> [ok |-> TRUE, item |-> JStr(<<x.s[Len(x.s)]>>)]
      [] OTHER        -> [ok |-> FALSE, item |-> JNull]

\* int(x) for a truthy x: not ok for ValueError / TypeError
IntOf(x) ==
    CASE x.k = "int"  -> [ok |-> TRUE, v |-> x.n]
      [] x.k = "bool" -> [ok |-> TRUE, v |-> 1]
      [] x.k = "str"  -> IntOfStr(x.s)
      [] OTHER        -> [ok |-> FALSE, v |-> 0]

(***************************************************************************)
(* ESPNFetcher.fetch_latest_play                                           *)
(***************************************************************************)
NoHref == "none"

Raised == [kind |-> "raise", desc |-> JNull, yardline |-> JNull]

\* the dict {} returned at lines 119 and 141
EmptyInfo == [kind |-> "empty", desc |-> JNull, yardline |-> JNull]

\* lines 133-135: the plays of all drive entries, or not ok if an entry has
\* no .get or its plays cannot be iterated
RECURSIVE DrivePlays(_)
DrivePlays(entries) ==
    IF entries = <<>> THEN [ok |-> TRUE, items |-> <<>>]
    ELSE LET d == Head(entries)
         IN  IF d.k # "obj" THEN [ok |-> FALSE, items |-> <<>>]
             ELSE LET inner == Iterate(Or(Get(d, "plays", JList(<<>>)), JList(<<>>)))
                      rest == DrivePlays(Tail(entries))
                  IN  IF inner.ok /\ rest.ok
                      THEN [ok |-> TRUE, items |-> inner.items \o rest.items]
                      ELSE [ok |-> FALSE, items |-> <<>>]

\* lines 127-135: the list `plays` before the items fallback
CollectPlays(j) ==
    IF j.k # "obj" THEN [ok |-> FALSE, items |-> <<>>]
    ELSE IF Get(j, "plays", JNull).k = "list"
    THEN [ok |-> TRUE, items |-> Get(j, "plays", JNull).q]
    ELSE LET drives == Or(Get(j, "drives", JNull), EmptyObj)
         IN  IF drives.k # "obj" THEN [ok |-> FALSE, items |-> <<>>]
             ELSE LET entries == Iterate(Or(Get(drives, "entries", JList(<<>>)), JList(<<>>)))
                  IN  IF entries.ok THEN DrivePlays(entries.items)
                      ELSE [ok |-> FALSE, items |-> <<>>]

\* line 144
PlayDesc(last) ==
    Or(Get(last, "text", JNull),
       Or(Get(last, "description", JNull),
          Or(Get(last, "playDescription", JNull), JStr(<<>>))))

YardKeys == <<"yardLine", "yardLineNumber", "startYardLine", "yardsToGo">>

\* lines 146-155
RECURSIVE PlayYardline(_, _)
PlayYardline(last, keys) ==
    IF keys = <<>> THEN JNull
    ELSE IF Head(keys) \in DOMAIN last.f
    THEN LET n == IntOf(Or(last.f[Head(keys)], JInt(0)))
         IN  IF n.ok THEN JInt(n.v) ELSE PlayYardline(last, Tail(keys))
    ELSE PlayYardline(last, Tail(keys))

\* lines 136-156, given the collected plays
LatestOf(j, collected) ==
    LET plays == IF collected = <<>>
                 THEN Or(Get(j, "items", JList(<<>>)), JList(<<>>))
                 ELSE JList(collected)
    IN  IF ~Truthy(plays) THEN EmptyInfo
        ELSE LET last == LastOf(plays)
             IN  IF ~last.ok \/ last.item.k # "obj" THEN Raised
                 ELSE [kind |-> "state",
                       desc |-> PlayDesc(last.item),
                       yardline |-> PlayYardline(last.item, YardKeys)]

\* fetch_latest_play(play_by_play_href) when the GET answers resp
fetch_latest_play(play_by_play_href, resp) ==
    IF play_by_play_href = NoHref THEN EmptyInfo
    ELSE IF resp.http # "ok" THEN Raised
    ELSE LET collected == CollectPlays(resp.body)
         IN  IF ~collected.ok THEN Raised
             ELSE LatestOf(resp.body, collected.items)

(***************************************************************************)
(* main, lines 305-317: the score of one tracked game                      *)
(***************************************************************************)
\* line 305: info.get("desc", "") or ""
InfoDesc(info) == IF info.kind = "state" THEN Or(info.desc, JStr(<<>>)) ELSE JStr(<<>>)

\* line 306: info.get("yardline")
InfoYardline(info) == IF info.kind = "state" THEN info.yardline ELSE JNull

Max(a, b) == IF a >= b THEN a ELSE b

\* lines 308-311 without the max(0, ...)
YardScore_Unclamped(yardline) ==
    IF yardline.k # "null" THEN (RED_ZONE_YARDS - yardline.n) + 50 ELSE 0

\* lines 308-311
YardScore(yardline) ==
    IF yardline.k # "null" THEN Max(0, (RED_ZONE_YARDS - yardline.n) + 50) ELSE 0

RedZonePhrases ==
    { <<"i","n"," ","t","h","e"," ","r","e","d"," ","z","o","n","e">>,
      <<"i","n","s","i","d","e"," ","t","h","e"," ","2","0">>,
      <<"i","n","s","i","d","e"," ","t","h","e"," ","1","0">> }

ScoringPhrase == <<"t","o","u","c","h","d","o","w","n">>

\* lines 313-317 with `elif` for the second `if`
TextScore_Exclusive(score, txt) ==
    IF \E p \in RedZonePhrases : Contains(txt, p) THEN score + 100
    ELSE IF Contains(txt, ScoringPhrase) THEN score + 80 ELSE score

\* lines 313-317, added to the yardline score
TextScore(score, txt) ==
    LET afterRedZone == IF \E p \in RedZonePhrases : Contains(txt, p)
                        THEN score + 100 ELSE score
    IN  IF Contains(txt, ScoringPhrase) THEN afterRedZone + 80 ELSE afterRedZone

\* desc.lower() raises AttributeError unless desc is a str
CanLower(desc) == desc.k = "str"

\* lines 308-317
Score(desc, yardline) == TextScore(YardScore(yardline), Lower(desc.s))

(***************************************************************************)
(* Feed responses the model polls with: the outcome of requests.get,       *)
(* raise_for_status and r.json (lines 120-122) and, when they succeed,     *)
(* the decoded body.                                                       *)
(***************************************************************************)
Text_Touchdown == <<"T","o","u","c","h","d","o","w","n">>

Text_Run == <<"R","u","n"," ","f","o","r"," ","3">>

Text_Inside10 == <<"1","s","t"," ","a","n","d"," ","g","o","a","l"," ","i","n","s","i","d","e"," ","t","h","e"," ","1","0">>

Text_Both == <<"I","N"," ","T","H","E"," ","R","E","D"," ","Z","O","N","E"," ","t","o","u","c","h","d","o","w","n">>

Text_TD90 == <<"T","O","U","C","H","D","O","W","N">>

Text_Punt == <<"P","u","n","t">>

Text_Inside20 == <<"I","n","s","i","d","e"," ","T","h","e"," ","2","0">>

Text_Inside1 == <<"i","n","s","i","d","e"," ","t","h","e"," ","1">>

Text_Minus30 == <<"-","3","0">>

Text_Opp8 == <<"O","P","P"," ","8">>

Text_Pad8 == <<" ","8"," ">>

Text_Abc == <<"a","b","c">>

\* a play with no field position and description "Touchdown"
Play_Touchdown == JObj([text |-> JStr(Text_Touchdown)])

\* field position 8, no phrase
Play_Run8 == JObj([text |-> JStr(Text_Run), yardLine |-> JInt(8)])

Play_Inside10 == JObj([description |-> JStr(Text_Inside10), yardLine |-> JInt(50)])

Play_Both == JObj([playDescription |-> JStr(Text_Both), yardsToGo |-> JStr(Text_Minus30)])

Play_TD60 == JObj([text |-> JStr(Text_TD90), yardLineNumber |-> JInt(60)])

Play_Punt70 == JObj([text |-> JStr(Text_Punt), yardLine |-> JInt(70)])

Play_Inside20 == JObj([text |-> JStr(Text_Inside20), yardLine |-> JInt(RED_ZONE_YARDS)])

Play_Far == JObj([text |-> JStr(Text_Inside1), startYardLine |-> JInt(71)])

Play_Deep == JObj([text |-> JNull, description |-> JStr(Text_Punt), yardLine |-> JInt(0 - 31)])

Play_NullYard == JObj([text |-> JStr(<<>>), yardLine |-> JNull, yardLineNumber |-> JInt(71)])

Play_StrYard == JObj([yardLine |-> JStr(Text_Opp8), startYardLine |-> JStr(Text_Pad8)])

Play_BoolYard == JObj([text |-> JStr(Text_Both), yardLine |-> JBool(TRUE)])

\* both phrases and no usable field position
Play_ListYard == JObj([yardLine |-> JList(<<JInt(8)>>), text |-> JStr(Text_Both)])

Play_Bare == EmptyObj

\* a play whose text is a number, and one whose text is a list
Play_NumText == JObj([text |-> JInt(5), yardLine |-> JInt(8)])

Play_ListText == JObj([text |-> JList(<<JStr(Text_Touchdown)>>)])

WellFormedPlays ==
    {Play_Touchdown, Play_Run8, Play_Inside10, Play_Both, Play_TD60, Play_Punt70,
     Play_Inside20, Play_Far, Play_Deep, Play_NullYard, Play_StrYard, Play_BoolYard,
     Play_ListYard, Play_Bare}

IllTypedPlays == {Play_NumText, Play_ListText}

Http(body) == [http |-> "ok", body |-> body]

\* the three shapes of lines 128-138 around a last play p
InPlays(p) == Http(JObj([plays |-> JList(<<Play_Punt70, p>>)]))

InDrives(p) ==
    Http(JObj([drives |-> JObj([entries |->
        JList(<<JObj([plays |-> JList(<<Play_Punt70>>)]), JObj([plays |-> JList(<<p>>)])>>)])]))

InItems(p) == Http(JObj([items |-> JList(<<p>>)]))

\* requests.get fails, raise_for_status fails, the body is not JSON
FailedRequests ==
    {[http |-> "neterr", body |-> JNull], [http |-> "status", body |-> JNull],
     [http |-> "notjson", body |-> JNull]}

\* bodies without a play
EmptyBodies ==
    {Http(EmptyObj),
     Http(JObj([plays |-> JList(<<>>)])),
     Http(JObj([plays |-> JNull, items |-> JNull])),
     Http(JObj([plays |-> JObj([a |-> JInt(1)])])),
     Http(JObj([drives |-> JObj([entries |-> JList(<<>>)])])),
     Http(JObj([drives |-> JObj([entries |-> JList(<<EmptyObj>>)]), items |-> JList(<<>>)]))}

\* bodies of another structure than the three shapes
MisshapenBodies ==
    {Http(JList(<<>>)),
     Http(JNull),
     Http(JInt(7)),
     Http(JObj([plays |-> JList(<<JInt(5)>>)])),
     Http(JObj([plays |-> JList(<<Play_Run8, JNull>>)])),
     Http(JObj([drives |-> JList(<<Play_Run8>>)])),
     Http(JObj([drives |-> JObj([entries |-> JList(<<JInt(7)>>)])])),
     Http(JObj([drives |-> JObj([entries |-> JInt(7)])])),
     Http(JObj([drives |-> JObj([entries |-> JObj([a |-> Play_Run8])])])),
     Http(JObj([drives |-> JObj([entries |-> JList(<<JObj([plays |-> JInt(3)])>>)])])),
     Http(JObj([drives |-> JObj([entries |-> JList(<<JObj([plays |-> JStr(Text_Abc)])>>)])])),
     Http(JObj([items |-> JObj([a |-> Play_Run8])])),
     Http(JObj([items |-> JStr(Text_Abc)])),
     Http(JObj([items |-> JInt(5)]))}

WellFormedFeeds ==
    {InPlays(p) : p \in WellFormedPlays} \cup {InDrives(p) : p \in WellFormedPlays}
        \cup {InItems(p) : p \in WellFormedPlays}

IllTypedFeeds == {InPlays(p) : p \in IllTypedPlays} \cup {InItems(p) : p \in IllTypedPlays}

\* the malformed or empty responses
MalformedFeeds == FailedRequests \cup EmptyBodies \cup MisshapenBodies \cup IllTypedFeeds

AllFeeds == WellFormedFeeds \cup MalformedFeeds

\* the responses the monitoring loop is polled with: two that raise, one
\* without plays, plays that score 80, 62, 120 and 90, and a play whose
\* text is not a str
LoopFeeds ==
    {[http |-> "neterr", body |-> JNull], Http(JList(<<>>)), Http(EmptyObj),
     InPlays(Play_Touchdown), InItems(Play_Run8), InDrives(Play_Inside10),
     InPlays(Play_TD60), InPlays(Play_NumText)}

(***************************************************************************)
(* Setup output of main (lines 222-286): the tracked games, their service  *)
(* and launch URL.  short_name is " vs ".join(teams), kept as its parts.   *)
(***************************************************************************)
None == [k |-> "None"]

Game_OSU == [id |-> "401", short_name |-> <<<<"O","S","U">>, <<"P","S","U">>>>,
             competition_href |-> <<"e",".","c","o","/","1">>, play_by_play_href |-> "pbp401"]

Game_Bama == [id |-> "402", short_name |-> <<<<"B","a","m","a">>, <<"L","S","U">>>>,
              competition_href |-> <<"e",".","c","o","/","2">>, play_by_play_href |-> "pbp402"]

\* an event without competitors and without a play-by-play link
Game_Navy == [id |-> "403", short_name |-> <<<<"N","a","v","y">>>>,
              competition_href |-> <<"e",".","c","o","/","3">>, play_by_play_href |-> NoHref]

\* SERVICE_URL_TEMPLATES: every template is "{game_href}"
ServiceUrl(svc, game_href) == game_href

\* the entries (g, svc, url) of lines 263-272
Launches ==
    {[g |-> Game_OSU, svc |-> "espn", url |-> ServiceUrl("espn", Game_OSU.competition_href)],
     [g |-> Game_Bama, svc |-> "fox", url |-> ServiceUrl("fox", Game_Bama.competition_href)],
     [g |-> Game_Navy, svc |-> "espn", url |-> ServiceUrl("espn", Game_Navy.competition_href)]}

Services == {"espn", "fox"}

\* the lists that follow each game at most once
LaunchLists ==
    UNION {{gl \in [1..n -> Launches] : \A a, b \in 1..n : gl[a] = gl[b] => a = b} :
           n \in 0..MaxGames}

\* lines 277-281: the profile of every service a game was launched with
LaunchedProfiles(gl) ==
    [s \in Services |-> [launched |-> \E n \in 1..Len(gl) : gl[n].svc = s]]

\* the 30 one-second waits of lines 285-286 have passed on a clock that
\* started at or after the epoch
StartClock == 30

(***************************************************************************)
(* bring_window_to_front_by_title_hint                                     *)
(***************************************************************************)
WindowTitles == {<<"O","S","U"," ","v","s"," ","P","S","U"," ","-"," ","C","h","r","o","m","e">>, <<"b","a","m","a">>, <<"e",".","c","o","/","3">>, <<"M","a","i","l">>, <<>>}

\* what w.activate() and the fallback click do: "activated", "clicked"
\* (activate raised, the click went through) or "failed" (both raised)
Windows == [title : WindowTitles, outcome : {"activated", "clicked", "failed"}]

\* the windows seen over the scans of one call
Screens == {S \in SUBSET Windows : Cardinality(S) <= 2}

bring_window_to_front_by_title_hint(title_hint, timeout, screen) ==
    /\ timeout > 0
    /\ \E w \in screen :
          /\ Len(w.title) > 0
          /\ Contains(Lower(w.title), Lower(title_hint))
          /\ w.outcome \in {"activated", "clicked"}

(***************************************************************************)
(* main: the monitoring loop (lines 288-342)                               *)
(***************************************************************************)
LoopInit ==
    /\ game_launches \in LaunchLists
    /\ profiles = LaunchedProfiles(game_launches)
    /\ pc = "poll"
    /\ i = 1
    /\ polled = <<>>
    /\ best_game = None
    /\ best_metric = 0 - 999
    /\ tnow = 0                  \* not assigned before line 324
    /\ last_switch_time = 0
    /\ currently_featured_game = None
    /\ success = FALSE           \* not assigned before line 330
    /\ activations = <<>>
    /\ clock = StartClock

\* line 319 with >= for >: the last of several maxima wins
IsBetter_OrEqual(score, metric) == score >= metric

\* line 319
IsBetter(score, metric) == score > metric

\* the locals desc, yardline and score of lines 305-317 (base is score after
\* line 311); raised records that the fetch ended in the except branch of
\* line 303
ScoredPlay(info, raised) ==
    [raised |-> raised, desc |-> InfoDesc(info), yardline |-> InfoYardline(info),
     base |-> YardScore(InfoYardline(info)),
     score |-> Score(InfoDesc(info), InfoYardline(info))]

\* lines 305-321 for entry gl with the fetched info
ScoreEntry(gl, info, raised) ==
    /\ CanLower(InfoDesc(info))
    /\ LET play == ScoredPlay(info, raised)
       IN  /\ polled' = Append(polled, play)
           /\ IF IsBetter(play.score, best_metric)
              THEN /\ best_metric' = play.score
                   /\ best_game' = [g |-> gl.g, svc |-> gl.svc, url |-> gl.url,
                                    desc |-> play.desc, yardline |-> play.yardline]
              ELSE UNCHANGED <<best_game, best_metric>>
    /\ i' = i + 1
    /\ UNCHANGED <<game_launches, profiles, pc, tnow, last_switch_time,
                   currently_featured_game, success, activations, clock>>

Polling == pc = "poll" /\ i <= Len(game_launches)

\* the game has no play-by-play link: line 301 skips the fetch
PollNoFeed ==
    /\ Polling
    /\ game_launches[i].g.play_by_play_href = NoHref
    /\ ScoreEntry(game_launches[i], EmptyInfo, FALSE)
    /\ UNCHANGED feedVars

\* the fetch raises and line 304 sets info = {}
PollFetchFails ==
    /\ Polling
    /\ game_launches[i].g.play_by_play_href # NoHref
    /\ \E resp \in LoopFeeds :
          /\ fetch_latest_play(game_launches[i].g.play_by_play_href, resp).kind = "raise"
          /\ ScoreEntry(game_launches[i], EmptyInfo, TRUE)
    /\ UNCHANGED feedVars

\* the fetch returns and the game is scored
PollScored ==
    /\ Polling
    /\ game_launches[i].g.play_by_play_href # NoHref
    /\ \E resp \in LoopFeeds :
          LET info == fetch_latest_play(game_launches[i].g.play_by_play_href, resp)
          IN  /\ info.kind # "raise"
              /\ ScoreEntry(game_launches[i], info, FALSE)
    /\ UNCHANGED feedVars

\* the fetch returns a description that is not a str: desc.lower() of line
\* 313 raises AttributeError outside any except clause and main ends
PollCrash ==
    /\ Polling
    /\ game_launches[i].g.play_by_play_href # NoHref
    /\ \E resp \in LoopFeeds :
          LET info == fetch_latest_play(game_launches[i].g.play_by_play_href, resp)
          IN  /\ info.kind # "raise"
              /\ ~CanLower(InfoDesc(info))
    /\ pc' = "crashed"
    /\ UNCHANGED <<game_launches, profiles, i, polled, best_game, best_metric, tnow,
                   last_switch_time, currently_featured_game, success, activations, clock>>
    /\ UNCHANGED feedVars

\* line 325 without the grace-period test
ShouldSwitch_NoGrace(best, metric, now, last) == best # None /\ metric > 0

\* line 325
ShouldSwitch(best, metric, now, last) ==
    best # None /\ metric > 0 /\ now - last > SWITCH_GRACE_SECONDS

\* lines 323-327: read the clock and decide whether to switch; the locals of
\* the for loop kept in polled are dead from here on
Decide ==
    /\ pc = "poll" /\ i > Len(game_launches)
    /\ tnow' = clock
    /\ pc' = IF ShouldSwitch(best_game, best_metric, clock, last_switch_time)
             THEN "activate" ELSE "sleep"
    /\ polled' = <<>>
    /\ UNCHANGED <<game_launches, profiles, i, best_game, best_metric, last_switch_time,
                   currently_featured_game, success, activations, clock>>
    /\ UNCHANGED feedVars

\* line 329: g.short_name.split(" vs ")[0]
TitleHint(g) == g.short_name[1]

\* line 337 moved out of the else branch: the game is marked featured
\* whether or not its window was found
FeaturedAfter_Always(ok, best, old) == best.g

\* line 337 assigning the tuple best_game instead of its game
FeaturedAfter_Tuple(ok, best, old) == IF ok THEN best ELSE old

\* line 337
FeaturedAfter(ok, best, old) == IF ok THEN best.g ELSE old

\* line 338 left out: the switch time is never recorded
SwitchTimeAfter_Stale(ok, now, old) == old

\* line 338
SwitchTimeAfter(ok, now, old) == IF ok THEN now ELSE old

\* lines 329-330 and, on success, 337-338
Activate ==
    /\ pc = "activate"
    /\ \E screen \in Screens :
          LET ok == bring_window_to_front_by_title_hint(TitleHint(best_game.g), 4, screen)
          IN  /\ success' = ok
              /\ currently_featured_game' = FeaturedAfter(ok, best_game, currently_featured_game)
              /\ last_switch_time' = SwitchTimeAfter(ok, tnow, last_switch_time)
              /\ pc' = IF ok THEN "sleep" ELSE "retry"
    /\ activations' = Append(activations, TitleHint(best_game.g))
    /\ UNCHANGED <<game_launches, profiles, i, polled, best_game, best_metric, tnow, clock>>
    /\ UNCHANGED feedVars

\* lines 331-338: the retry with the launch URL as the hint
Retry ==
    /\ pc = "retry"
    /\ \E screen \in Screens :
          LET ok == bring_window_to_front_by_title_hint(best_game.url, 2, screen)
          IN  /\ success' = ok
              /\ currently_featured_game' = FeaturedAfter(ok, best_game, currently_featured_game)
              /\ last_switch_time' = SwitchTimeAfter(ok, tnow, last_switch_time)
    /\ pc' = "sleep"
    /\ activations' = Append(activations, best_game.url)
    /\ UNCHANGED <<game_launches, profiles, i, polled, best_game, best_metric, tnow, clock>>
    /\ UNCHANGED feedVars

\* line 340 and the top of the next iteration (lines 295-296); the delay is
\* the time the fetches and the window search of the cycles took
Sleep ==
    /\ pc = "sleep"
    /\ \E delay \in 0..MaxDelay :
          /\ clock + POLL_INTERVAL + delay <= MaxClock
          /\ clock' = clock + POLL_INTERVAL + delay
    /\ pc' = "poll"
    /\ i' = 1
    /\ best_game' = None
    /\ best_metric' = 0 - 999
    /\ activations' = <<>>
    /\ UNCHANGED <<game_launches, profiles, polled, tnow, last_switch_time,
                   currently_featured_game, success>>
    /\ UNCHANGED feedVars

\* time.time() is the system clock, which can be set back (an NTP step, an
\* operator); the loop reads it once per cycle, so a step at any moment is
\* a step during the sleep
ClockSetBack ==
    /\ pc = "sleep"
    /\ \E k \in 1..MaxSetBack :
          /\ clock - k >= tnow - MaxSetBack
          /\ clock - k >= 0
          /\ clock' = clock - k
    /\ UNCHANGED <<game_launches, profiles, pc, i, polled, best_game, best_metric, tnow,
                   last_switch_time, currently_featured_game, success, activations>>
    /\ UNCHANGED feedVars

\* lines 341-342: Ctrl-C ends the loop
KeyboardInterrupt ==
    /\ pc \notin {"crashed", "stopped"}
    /\ pc' = "stopped"
    /\ UNCHANGED <<game_launches, profiles, i, polled, best_game, best_metric, tnow,
                   last_switch_time, currently_featured_game, success, activations, clock>>
    /\ UNCHANGED feedVars

NoScore == [raised |-> FALSE, desc |-> JStr(<<>>), yardline |-> JNull, base |-> 0, score |-> 0]

FeedIdle ==
    /\ feed = [href |-> NoHref, resp |-> [http |-> "neterr", body |-> JNull]]
    /\ fetched = EmptyInfo
    /\ scored = NoScore
    /\ phase = "idle"

Init == LoopInit /\ FeedIdle

Next ==
    \/ PollNoFeed
    \/ PollFetchFails
    \/ PollScored
    \/ PollCrash
    \/ Decide
    \/ Activate
    \/ Retry
    \/ Sleep
    \/ ClockSetBack
    \/ KeyboardInterrupt

Spec == Init /\ [][Next]_vars

(***************************************************************************)
(* The fetcher and the scoring on their own: one feed reference and one    *)
(* response, fetched as line 302 does and scored as lines 299-317 do.      *)
(***************************************************************************)
FeedInit ==
    /\ feed \in [href : {NoHref, "pbp401"}, resp : AllFeeds]
    /\ fetched = EmptyInfo
    /\ scored = NoScore
    /\ phase = "input"

LoopIdle ==
    /\ game_launches = <<>>
    /\ profiles = LaunchedProfiles(<<>>)
    /\ pc = "stopped"
    /\ i = 1
    /\ polled = <<>>
    /\ best_game = None
    /\ best_metric = 0 - 999
    /\ tnow = 0
    /\ last_switch_time = 0
    /\ currently_featured_game = None
    /\ success = FALSE
    /\ activations = <<>>
    /\ clock = StartClock

\* fetcher.fetch_latest_play(href) returns or raises
Fetch ==
    /\ phase = "input"
    /\ fetched' = fetch_latest_play(feed.href, feed.resp)
    /\ phase' = "fetched"
    /\ UNCHANGED <<feed, scored>>
    /\ UNCHANGED loopVars

\* info as lines 299-304 leave it
InfoOf(outcome) == IF outcome.kind = "raise" THEN EmptyInfo ELSE outcome

\* lines 305-317 on the fetched info
ScoreFetched ==
    /\ phase = "fetched"
    /\ CanLower(InfoDesc(InfoOf(fetched)))
    /\ scored' = ScoredPlay(InfoOf(fetched), fetched.kind = "raise")
    /\ phase' = "scored"
    /\ UNCHANGED <<feed, fetched>>
    /\ UNCHANGED loopVars

\* line 313 raises on a description that is not a str
ScoreCrash ==
    /\ phase = "fetched"
    /\ ~CanLower(InfoDesc(InfoOf(fetched)))
    /\ phase' = "crashed"
    /\ UNCHANGED <<feed, fetched, scored>>
    /\ UNCHANGED loopVars

FeedNext == Fetch \/ ScoreFetched \/ ScoreCrash

HarnessInit == LoopIdle /\ FeedInit

SpecFeed == HarnessInit /\ [][FeedNext]_vars

(***************************************************************************)
(* Properties                                                              *)
(***************************************************************************)

\* C1: in a poll cycle whose decision timestamp is less than
\* SWITCH_GRACE_SECONDS after the last switch time, no window activation is
\* requested and the last switch time and the featured game stay as they
\* are, whatever the maximum score; an activation is only ever under way
\* when that elapsed time is not below the grace period.
C1_NoSwitchWithinGrace ==
    /\ [](pc \in {"activate", "retry"} =>
            ~(tnow - last_switch_time < SWITCH_GRACE_SECONDS))
    /\ [][(pc = "poll" /\ pc' \in {"activate", "retry", "sleep"}
              /\ tnow' - last_switch_time < SWITCH_GRACE_SECONDS)
            => (/\ pc' = "sleep"
                /\ activations' = <<>>
                /\ UNCHANGED <<last_switch_time, currently_featured_game>>)]_vars

\* a cycle with a positive maximum score, decided less than the grace period
\* after an earlier switch, that went to sleep without an activation
C1_Witness ==
    /\ pc = "sleep"
    /\ best_metric > 0
    /\ last_switch_time > 0
    /\ tnow - last_switch_time < SWITCH_GRACE_SECONDS
    /\ activations = <<>>

C2_MaxScore(plays) ==
    CHOOSE m \in {plays[n].score : n \in DOMAIN plays} :
        \A n \in DOMAIN plays : plays[n].score <= m

C2_FirstMax(plays) ==
    CHOOSE k \in DOMAIN plays :
        /\ plays[k].score = C2_MaxScore(plays)
        /\ \A n \in 1..(k - 1) : plays[n].score < C2_MaxScore(plays)

\* C2: once at least one tracked game is scored in a cycle, the switch
\* candidate is the earliest game of the tracked order whose score is the
\* maximum of the scores so far, and best_metric is that maximum; so it is
\* at the end of the for loop (62 against 80 selects the 80, 120 against 90
\* the 120).
C2_FirstMaximumIsCandidate ==
    (pc = "poll" /\ polled # <<>>) =>
        LET k == C2_FirstMax(polled)
        IN  /\ best_metric = C2_MaxScore(polled)
            /\ best_game # None
            /\ best_game.g = game_launches[k].g
            /\ best_game.svc = game_launches[k].svc
            /\ best_game.url = game_launches[k].url
            /\ best_game.desc = polled[k].desc
            /\ best_game.yardline = polled[k].yardline

\* the for loop is over, two games share a positive maximum and the first
\* of them is the candidate
C2_Witness ==
    /\ pc = "poll"
    /\ i > Len(game_launches)
    /\ Len(polled) = 2
    /\ polled[1].score = polled[2].score
    /\ polled[1].score > 0
    /\ best_game # None
    /\ best_game.g = game_launches[1].g

C3_Field(yardline) ==
    IF yardline.k = "null" THEN 0
    ELSE IF (RED_ZONE_YARDS - yardline.n) + 50 > 0
    THEN (RED_ZONE_YARDS - yardline.n) + 50 ELSE 0

C3_HasRedZonePhrase(desc) ==
    \/ Contains(Lower(desc.s), <<"i","n"," ","t","h","e"," ","r","e","d"," ","z","o","n","e">>)
    \/ Contains(Lower(desc.s), <<"i","n","s","i","d","e"," ","t","h","e"," ","2","0">>)
    \/ Contains(Lower(desc.s), <<"i","n","s","i","d","e"," ","t","h","e"," ","1","0">>)

C3_HasScoringPhrase(desc) ==
    Contains(Lower(desc.s), <<"t","o","u","c","h","d","o","w","n">>)

\* C3: the score of a play state is the sum of max(0, (RED_ZONE_YARDS - v)
\* + 50) for a field position v (0 without one, 50 at v = RED_ZONE_YARDS),
\* 100 if the description contains a red-zone phrase and 80 if it contains
\* the scoring phrase; with both phrases the text contributes 180, with or
\* without a field position.
C3_ScoreIsSumOfContributions ==
    phase = "scored" =>
        /\ scored.score = C3_Field(scored.yardline)
                          + (IF C3_HasRedZonePhrase(scored.desc) THEN 100 ELSE 0)
                          + (IF C3_HasScoringPhrase(scored.desc) THEN 80 ELSE 0)
        /\ scored.base = C3_Field(scored.yardline)
        /\ (scored.yardline.k = "int" /\ scored.yardline.n = RED_ZONE_YARDS)
              => scored.base = 50
        /\ (C3_HasRedZonePhrase(scored.desc) /\ C3_HasScoringPhrase(scored.desc))
              => scored.score - scored.base = 180

\* a description with both phrases and no field position scored 180
C3_Witness ==
    /\ phase = "scored"
    /\ scored.yardline.k = "null"
    /\ C3_HasRedZonePhrase(scored.desc)
    /\ C3_HasScoringPhrase(scored.desc)
    /\ scored.score = 180

\* C4 as stated: for a field position v <= RED_ZONE_YARDS - 50 the
\* field-position contribution to the score is 0.
C4_Original ==
    (phase = "scored" /\ scored.yardline.k = "int"
        /\ scored.yardline.n <= RED_ZONE_YARDS - 50)
      => scored.base = 0

\* C4 amended: for a field position v >= RED_ZONE_YARDS + 50 the
\* field-position contribution to the score is 0.
C4_ZeroFromThresholdPlus50 ==
    (phase = "scored" /\ scored.yardline.k = "int"
        /\ scored.yardline.n >= RED_ZONE_YARDS + 50)
      => scored.base = 0

\* a play at field position RED_ZONE_YARDS + 50 was scored
C4_Witness ==
    /\ phase = "scored"
    /\ scored.yardline.k = "int"
    /\ scored.yardline.n = RED_ZONE_YARDS + 50
    /\ scored.base = 0

\* C5: for a missing feed reference and for every malformed or empty
\* response, fetch_latest_play returns a state with no description and no
\* field position, and does not raise.
C5_MalformedFeedGivesEmptyState ==
    (phase = "fetched" /\ (feed.href = NoHref \/ feed.resp \in MalformedFeeds))
      => /\ fetched.kind # "raise"
         /\ ~Truthy(fetched.desc)
         /\ fetched.yardline.k = "null"

\* C6: a cycle in which the fetch of a tracked game raised scores that game
\* 0 and is not ended by an exception: the other games are scored and the
\* loop goes on to its sleep.
C6_FetchFailureIsContained ==
    (\E n \in DOMAIN polled : polled[n].raised) =>
        /\ \A n \in DOMAIN polled : polled[n].raised => polled[n].score = 0
        /\ pc # "crashed"

\* C7: a window activation that fails leaves the featured game and the last
\* switch time as they are, and after the failed retry with the launch URL
\* the loop is at its sleep, on its way to the next cycle.
C7_FailedActivationMarksNothing ==
    [][(activations' # activations /\ activations' # <<>> /\ ~success')
          => (/\ UNCHANGED <<currently_featured_game, last_switch_time>>
              /\ pc' = IF Len(activations') = 1 THEN "retry" ELSE "sleep"
              /\ Len(activations') = 2 =>
                    (/\ activations'[1] = TitleHint(best_game.g)
                     /\ activations'[2] = best_game.url))]_vars

\* both activations of a cycle failed and no game is featured
C7_Witness ==
    /\ pc = "sleep"
    /\ Len(activations) = 2
    /\ ~success
    /\ best_metric > 0
    /\ currently_featured_game = None

\* C8: a successful switch sets the featured game to the selected game and
\* the last switch time to the cycle's decision timestamp and changes
\* nothing else of the loop's state; no other step changes the featured game
\* or the last switch time, and none changes the tracked games and the
\* service profiles.
C8_SwitchFrame ==
    [][/\ (activations' # activations /\ activations' # <<>> /\ success')
            => (/\ currently_featured_game' = best_game.g
                /\ last_switch_time' = tnow
                /\ pc' = "sleep"
                /\ UNCHANGED <<game_launches, profiles, best_game, best_metric, tnow,
                               i, polled, clock>>)
       /\ (currently_featured_game' # currently_featured_game
              \/ last_switch_time' # last_switch_time)
            => (pc \in {"activate", "retry"} /\ activations' # activations /\ success')
       /\ UNCHANGED <<game_launches, profiles>>]_vars

\* a switch has just succeeded and is recorded
C8_Witness ==
    /\ pc = "sleep"
    /\ activations # <<>>
    /\ success
    /\ currently_featured_game = best_game.g
    /\ last_switch_time = tnow
    /\ tnow > 0

\* C9: the featured game is none or one of the tracked games, and the
\* tracked games never change.
C9_OneFeaturedTrackedGame ==
    /\ [](\/ currently_featured_game = None
          \/ \E n \in 1..Len(game_launches) : game_launches[n].g = currently_featured_game)
    /\ [][game_launches' = game_launches]_vars

\* a game is featured in a run that tracks two games
C9_Witness ==
    /\ currently_featured_game # None
    /\ Len(game_launches) = 2
    /\ game_launches[2].g = currently_featured_game

\* C10: with POLL_INTERVAL > SWITCH_GRACE_SECONDS, every poll cycle whose
\* maximum score is positive requests a window activation.
C10_PositiveScoreAlwaysAttempts ==
    (pc = "sleep" /\ best_metric > 0) => activations # <<>>

====
